---- MODULE Spec2Model ----
(***************************************************************************)
(* Model of the relation-extraction data preparation of klue-level2-nlp-09 *)
(*   src/add_token_ver/load_data.py : load_data, tokenized_dataset         *)
(*   src/models/dayeong/train.py    : label_to_num, train                  *)
(* Strings are sequences of one-character strings; Python slices, split,   *)
(* strip and int are computed on them as CPython computes them.            *)
(***************************************************************************)
EXTENDS Integers, Sequences, FiniteSets

VARIABLES
  pc, err,                                   \* position and pending exception
  sub_start, sub_end, obj_start, obj_end,    \* load_data: locals of the row loop
  row, out,                                  \* load_data: row read, record appended
  label, dict_label_to_num, num_label, ret,  \* label_to_num
  i,                                         \* index of the running for loop
  tokenizer, n_splits, fold, part, size,     \* train / tokenized_dataset
  n_add, n_enc, n_reg, late_reg              \* history of the tokenizer calls

loadVars  == <<sub_start, sub_end, obj_start, obj_end, row, out>>
labelVars == <<label, dict_label_to_num, num_label, ret>>
trainVars == <<tokenizer, n_splits, fold, part, size, n_add, n_enc, n_reg, late_reg>>
vars == <<pc, err, i, loadVars, labelVars, trainVars>>

\* ------------------------------------------------------------ bounds
\* longest generated sentence (sentences are prefixes of Alphabet)
MaxLen == 3
\* longest generated sentence of a file with malformed fields
DirtyLen == 2
\* most rows of a generated file
MaxRows == 3
\* longest label list handed to label_to_num
MaxLabels == 3
\* largest number of folds (args.fold) of a run
MaxFold == 3

\* ------------------------------------------------------------ strings
Min(a, b) == IF a < b THEN a ELSE b

\* s[a:b] for 0 <= a, 0 <= b (CPython clamps both ends to len(s))
PySlice(s, a, b) == SubSeq(s, Min(a, Len(s)) + 1, Min(b, Len(s)))

\* s[a:] for 0 <= a
PyFrom(s, a) == SubSeq(s, Min(a, Len(s)) + 1, Len(s))

\* s.find(c) on the 1-based positions: the first k with s[k] = c, else Len(s) + 1
RECURSIVE FindFrom(_, _, _)
FindFrom(s, c, k) ==
  IF k > Len(s) \/ s[k] = c THEN k ELSE FindFrom(s, c, k + 1)

\* s.split(c)[0] : the text before the first c (all of s when c is absent)
FirstField(s, c) == SubSeq(s, 1, FindFrom(s, c, 1) - 1)

\* s.split(c) : all the fields, in order (always at least one)
RECURSIVE PySplit(_, _)
PySplit(s, c) ==
  LET f == FirstField(s, c)
  IN  IF Len(f) = Len(s) THEN <<f>>
      ELSE <<f>> \o PySplit(SubSeq(s, Len(f) + 2, Len(s)), c)

\* s.strip() : leading and trailing blanks removed
RECURSIVE LStrip(_)
LStrip(s) == IF s # <<>> /\ Head(s) = " " THEN LStrip(Tail(s)) ELSE s

RECURSIVE RStrip(_)
RStrip(s) ==
  IF s # <<>> /\ s[Len(s)] = " " THEN RStrip(SubSeq(s, 1, Len(s) - 1)) ELSE s

PyStrip(s) == RStrip(LStrip(s))

Digits == <<"0", "1", "2", "3", "4", "5", "6", "7", "8", "9">>

IsDigit(c) == \E d \in 1..10 : Digits[d] = c

DigitVal(c) == (CHOOSE d \in 1..10 : Digits[d] = c) - 1

RECURSIVE DecVal(_)
DecVal(s) ==
  IF s = <<>> THEN 0
  ELSE 10 * DecVal(SubSeq(s, 1, Len(s) - 1)) + DigitVal(s[Len(s)])

\* int(s) on an already stripped s: a decimal numeral, or ValueError
PyInt(s) ==
  IF s # <<>> /\ \A k \in 1..Len(s) : IsDigit(s[k])
  THEN [ok |-> TRUE, val |-> DecVal(s)]
  ELSE [ok |-> FALSE, val |-> 0]

\* str(n) for n >= 0
RECURSIVE PyStr(_)
PyStr(n) ==
  IF n < 10 THEN <<Digits[n + 1]>> ELSE PyStr(n \div 10) \o <<Digits[(n % 10) + 1]>>

\* ------------------------------------------------------------ literals
START_IDX == <<"s", "t", "a", "r", "t", "_", "i", "d", "x">>
END_IDX   == <<"e", "n", "d", "_", "i", "d", "x">>
SUB_OPEN  == <<"[", "S", "U", "B", "]">>
SUB_CLOSE == <<"[", "/", "S", "U", "B", "]">>
OBJ_OPEN  == <<"[", "O", "B", "J", "]">>
OBJ_CLOSE == <<"[", "/", "O", "B", "J", "]">>


\* --------------------------------------------- the rows of the input file
\* subject_entity / object_entity column text:
\*   {'word': '<text>', 'start_idx': <int>, 'end_idx': <int>, 'type': '<TAG>'}
P_WORD  == <<"{", "'", "w", "o", "r", "d", "'", ":", " ", "'">>
QUOTE   == <<"'">>
K_START == <<",", " ", "'", "s", "t", "a", "r", "t", "_", "i", "d", "x", "'", ":", " ">>
K_END   == <<",", " ", "'", "e", "n", "d", "_", "i", "d", "x", "'", ":", " ">>
K_TYPE  == <<",", " ", "'", "t", "y", "p", "e", "'", ":", " ", "'">>
P_CLOSE == <<"'", "}">>
PER     == <<"P", "E", "R">>
ORG     == <<"O", "R", "G">>

\* the column text of one entity; omit names the key left out of a malformed
\* field ("none", "start_idx" or "end_idx")
EntityField(word, s, e, typ, omit) ==
  P_WORD \o word \o QUOTE
    \o (IF omit = "start_idx" THEN <<>> ELSE K_START \o PyStr(s))
    \o (IF omit = "end_idx" THEN <<>> ELSE K_END \o PyStr(e))
    \o K_TYPE \o typ \o P_CLOSE

Alphabet == <<"a", "b", "c", "d", "e", "f", "g", "h">>

KimSentence == <<"K", "i", "m", " ", "w", "o", "r", "k", "s", " ", "a", "t", " ",
                 "A", "c", "m", "e">>

LongSentence == <<"K", "i", "m", " ", "j", "o", "i", "n", "e", "d", " ", "A", "c",
                  "m", "e", " ", "I", "n", "t", "e", "r", "n", "a", "t", "i", "o",
                  "n", "a", "l", " ", "H", "o", "l", "d", "i", "n", "g", "s", " ",
                  "L", "i", "m", "i", "t", "e", "d">>

\* the spans (inclusive offsets) of a sentence of length n
Spans(n) == {<<s, e>> \in (0..(n - 1)) \X (0..(n - 1)) : s <= e}

\* one row of the file: sentence z with subject span s and object span o;
\* om names the key each field leaves out (sub, obj, omit record how the row
\* was written and are not read by load_data)
RawRecord(z, s, o, om) ==
  [sentence |-> z,
   subject_entity |-> EntityField(PySlice(z, s[1], s[2] + 1), s[1], s[2], PER, om[1]),
   object_entity  |-> EntityField(PySlice(z, o[1], o[2] + 1), o[1], o[2], ORG, om[2]),
   sub |-> s, obj |-> o, omit |-> om]

Complete == <<"none", "none">>

\* a row with one field missing one key
Omissions == {<<"start_idx", "none">>, <<"end_idx", "none">>,
              <<"none", "start_idx">>, <<"none", "end_idx">>}

\* every sentence up to length n with every pair of in-bounds spans
ShortRows(n, oms) ==
  {RawRecord(SubSeq(Alphabet, 1, q[1]), q[2], q[3], q[4]) :
     q \in {q \in (1..n) \X Spans(n) \X Spans(n) \X oms :
              q[2] \in Spans(q[1]) /\ q[3] \in Spans(q[1])}}

\* the two worked sentences, each entity in either role
ExampleRows(oms) ==
  {RawRecord(KimSentence, q[1][1], q[1][2], q[2]) :
     q \in {<<<<0, 2>>, <<13, 16>>>>, <<<<13, 16>>, <<0, 2>>>>} \X oms}
  \cup
  {RawRecord(LongSentence, q[1][1], q[1][2], q[2]) :
     q \in {<<<<0, 2>>, <<11, 45>>>>, <<<<11, 45>>, <<0, 2>>>>} \X oms}

\* files whose every field holds all four keys
Rows == ShortRows(MaxLen, {Complete}) \cup ExampleRows({Complete})

\* files in which a field may miss a key
DirtyRows ==
  ShortRows(DirtyLen, {Complete} \cup Omissions)
    \cup ExampleRows({Complete} \cup Omissions)

\* ------------------------------------------------------------ load_data
\* a local of load_data: {} while unbound, {v} once assigned
Unbound == {}
ValueOf(l) == CHOOSE v \in l : TRUE

\* x[1:-1].split(':')[-1].split('\'')[-2]
EntityType(x) ==
  LET inner == PySlice(x, 1, Len(x) - 1)
      a     == PySplit(inner, ":")
      b     == PySplit(a[Len(a)], "'")
  IN  IF Len(b) >= 2 THEN [ok |-> TRUE, val |-> b[Len(b) - 1]]
      ELSE [ok |-> FALSE, val |-> <<>>]

\* s[a: a+w] == key, compared character by character
SliceIs(s, a, w, key) ==
  /\ Len(key) = w
  /\ a + w <= Len(s)
  /\ \A j \in 1..w : s[a + j] = key[j]

\* one `if s[idx_i: idx_i+w] == key: local = int(s[idx_i+off:].split(',')[0].strip())`
ScanKey(st, local, s, idx_i, w, key, off) ==
  IF st.err # "none" \/ ~SliceIs(s, idx_i, w, key) THEN st
  ELSE LET n == PyInt(PyStrip(FirstField(PyFrom(s, idx_i + off), ",")))
       IN  IF n.ok THEN [st EXCEPT ![local] = {n.val}]
           ELSE [st EXCEPT !.err = "ValueError"]

\* the body of `for idx_i in range(len(x))`
ScanStep(st, x, y, idx_i) ==
  ScanKey(
    ScanKey(
      ScanKey(
        ScanKey(st, "sub_start", x, idx_i, 9, START_IDX, 12),
        "sub_end", x, idx_i, 7, END_IDX, 10),
      "obj_start", y, idx_i, 9, START_IDX, 12),
    "obj_end", y, idx_i, 7, END_IDX, 10)

\* the iterations idx_i, idx_i+1, ..., len(x)-1
RECURSIVE ScanLoop(_, _, _, _)
ScanLoop(st, x, y, idx_i) ==
  IF idx_i >= Len(x) \/ st.err # "none" THEN st
  ELSE ScanLoop(ScanStep(st, x, y, idx_i), x, y, idx_i + 1)

\* MarkSentence with the second insertion at the unshifted offsets
MarkSentence_NoShift(z, sub_i, obj_i) ==
  IF sub_i[1] < obj_i[1]
  THEN LET z1 == PySlice(z, 0, sub_i[1]) \o SUB_OPEN
                   \o PySlice(z, sub_i[1], sub_i[2] + 1) \o SUB_CLOSE
                   \o PyFrom(z, sub_i[2] + 1)
       IN  PySlice(z1, 0, obj_i[1]) \o OBJ_OPEN
             \o PySlice(z1, obj_i[1], obj_i[2] + 1) \o OBJ_CLOSE
             \o PyFrom(z1, obj_i[2] + 1)
  ELSE LET z1 == PySlice(z, 0, obj_i[1]) \o OBJ_OPEN
                   \o PySlice(z, obj_i[1], obj_i[2] + 1) \o OBJ_CLOSE
                   \o PyFrom(z, obj_i[2] + 1)
       IN  PySlice(z1, 0, sub_i[1]) \o SUB_OPEN
             \o PySlice(z1, sub_i[1], sub_i[2] + 1) \o SUB_CLOSE
             \o PyFrom(z1, sub_i[2] + 1)

\* MarkSentence with the tail after the second closing marker taken one
\* character late
MarkSentence_DropChar(z, sub_i, obj_i) ==
  IF sub_i[1] < obj_i[1]
  THEN LET z1 == PySlice(z, 0, sub_i[1]) \o SUB_OPEN
                   \o PySlice(z, sub_i[1], sub_i[2] + 1) \o SUB_CLOSE
                   \o PyFrom(z, sub_i[2] + 1)
       IN  PySlice(z1, 0, obj_i[1] + 11) \o OBJ_OPEN
             \o PySlice(z1, obj_i[1] + 11, obj_i[2] + 12) \o OBJ_CLOSE
             \o PyFrom(z1, obj_i[2] + 13)
  ELSE LET z1 == PySlice(z, 0, obj_i[1]) \o OBJ_OPEN
                   \o PySlice(z, obj_i[1], obj_i[2] + 1) \o OBJ_CLOSE
                   \o PyFrom(z, obj_i[2] + 1)
       IN  PySlice(z1, 0, sub_i[1] + 11) \o SUB_OPEN
             \o PySlice(z1, sub_i[1] + 11, sub_i[2] + 12) \o SUB_CLOSE
             \o PyFrom(z1, sub_i[2] + 13)

\* MarkSentence with the subject always inserted first
MarkSentence_SubFirst(z, sub_i, obj_i) ==
  LET z1 == PySlice(z, 0, sub_i[1]) \o SUB_OPEN
              \o PySlice(z, sub_i[1], sub_i[2] + 1) \o SUB_CLOSE
              \o PyFrom(z, sub_i[2] + 1)
  IN  PySlice(z1, 0, obj_i[1] + 11) \o OBJ_OPEN
        \o PySlice(z1, obj_i[1] + 11, obj_i[2] + 12) \o OBJ_CLOSE
        \o PyFrom(z1, obj_i[2] + 12)

\* the two branches that put the four markers into z
MarkSentence(z, sub_i, obj_i) ==
  IF sub_i[1] < obj_i[1]
  THEN LET z1 == PySlice(z, 0, sub_i[1]) \o SUB_OPEN
                   \o PySlice(z, sub_i[1], sub_i[2] + 1) \o SUB_CLOSE
                   \o PyFrom(z, sub_i[2] + 1)
       IN  PySlice(z1, 0, obj_i[1] + 11) \o OBJ_OPEN
             \o PySlice(z1, obj_i[1] + 11, obj_i[2] + 12) \o OBJ_CLOSE
             \o PyFrom(z1, obj_i[2] + 12)
  ELSE LET z1 == PySlice(z, 0, obj_i[1]) \o OBJ_OPEN
                   \o PySlice(z, obj_i[1], obj_i[2] + 1) \o OBJ_CLOSE
                   \o PyFrom(z, obj_i[2] + 1)
       IN  PySlice(z1, 0, sub_i[1] + 11) \o SUB_OPEN
             \o PySlice(z1, sub_i[1] + 11, sub_i[2] + 12) \o SUB_CLOSE
             \o PyFrom(z1, sub_i[2] + 12)

NoRecord == [done |-> FALSE]

\* the record appended to the output columns for one row
AnnotatedRecord(z, sub_typ, obj_typ, sub_i, obj_i) ==
  [done |-> TRUE,
   sentence |-> MarkSentence(z, sub_i, obj_i),
   subject_entity |-> PySlice(z, sub_i[1], sub_i[2] + 1),
   object_entity  |-> PySlice(z, obj_i[1], obj_i[2] + 1),
   subject_type |-> sub_typ, object_type |-> obj_typ,
   subject_idx |-> sub_i, object_idx |-> obj_i]

\* one iteration of the row loop, started with the locals in st
LoopBody(st, r) ==
  LET x  == r.subject_entity
      y  == r.object_entity
      st0 == IF EntityType(x).ok /\ EntityType(y).ok THEN st
             ELSE [st EXCEPT !.err = "IndexError"]
      st1 == ScanLoop(st0, x, y, 0)
      st2 == IF st1.err = "none"
                /\ Unbound \in {st1.sub_start, st1.sub_end, st1.obj_start, st1.obj_end}
             THEN [st1 EXCEPT !.err = "UnboundLocalError"]
             ELSE st1
  IN  [st |-> st2,
       rec |-> IF st2.err # "none" THEN NoRecord
               ELSE AnnotatedRecord(r.sentence, EntityType(x).val, EntityType(y).val,
                      <<ValueOf(st2.sub_start), ValueOf(st2.sub_end)>>,
                      <<ValueOf(st2.obj_start), ValueOf(st2.obj_end)>>)]

Locals == [sub_start |-> sub_start, sub_end |-> sub_end,
           obj_start |-> obj_start, obj_end |-> obj_end, err |-> "none"]

NoRow == [sentence |-> <<>>]

IdleLoad ==
  /\ sub_start = Unbound /\ sub_end = Unbound
  /\ obj_start = Unbound /\ obj_end = Unbound
  /\ row = NoRow /\ out = NoRecord

IdleLabel ==
  /\ label = <<>> /\ dict_label_to_num = <<>> /\ num_label = <<>> /\ ret = {}

IdleTrain ==
  /\ tokenizer = <<>> /\ n_splits = 0 /\ fold = 0 /\ part = "none" /\ size = 0
  /\ n_add = 0 /\ n_enc = 0 /\ n_reg = 0 /\ late_reg = FALSE

InitLoad == pc = "rows" /\ err = "none" /\ i = 0 /\ IdleLoad /\ IdleLabel /\ IdleTrain

\* load_data reads row i of the file, r, and runs the loop body on it
ProcessRow(r) ==
  /\ pc = "rows"
  /\ i < MaxRows
  /\ i' = i + 1
  /\ \E b \in {LoopBody(Locals, r)} :
         /\ sub_start' = b.st.sub_start /\ sub_end' = b.st.sub_end
         /\ obj_start' = b.st.obj_start /\ obj_end' = b.st.obj_end
         /\ row' = r
         /\ out' = b.rec
         /\ err' = b.st.err
         /\ pc' = IF b.st.err = "none" THEN "rows" ELSE "raised"
  /\ UNCHANGED <<labelVars, trainVars>>

NextLoad == \E r \in Rows : ProcessRow(r)

SpecLoad == InitLoad /\ [][NextLoad]_vars

NextDirty == \E r \in DirtyRows : ProcessRow(r)

SpecDirty == InitLoad /\ [][NextDirty]_vars

\* --------------------------------------------------------- label_to_num
\* label strings: three of the relation labels and one that no table holds
LabelStrings == {"no_relation", "org:top_members/employees", "org:members", "per:unlisted"}

\* contents of dict_label_to_num.pkl: a full table and one lacking a label
LabelTables ==
  {[l \in {"no_relation", "org:top_members/employees", "org:members"} |->
      IF l = "no_relation" THEN 0 ELSE IF l = "org:top_members/employees" THEN 1 ELSE 2],
   [l \in {"no_relation", "org:top_members/employees"} |->
      IF l = "no_relation" THEN 0 ELSE 1]}

LabelLists == UNION {[1..n -> LabelStrings] : n \in 0..MaxLabels}

\* d.get(v, 0): an absent key answers 0 instead of raising
Subscript_Default(d, v) ==
  IF v \in DOMAIN d THEN [ok |-> TRUE, val |-> d[v]] ELSE [ok |-> TRUE, val |-> 0]

\* dict_label_to_num[v]: the value, or KeyError
Subscript(d, v) ==
  IF v \in DOMAIN d THEN [ok |-> TRUE, val |-> d[v]] ELSE [ok |-> FALSE, val |-> 0]

InitLabel ==
  /\ pc = "open" /\ err = "none" /\ i = 0
  /\ label \in LabelLists
  /\ dict_label_to_num = <<>> /\ num_label = <<>> /\ ret = {}
  /\ IdleLoad /\ IdleTrain

\* with open(...) as f: dict_label_to_num = pickle.load(f)
LoadTable ==
  /\ pc = "open"
  /\ \E t \in LabelTables : dict_label_to_num' = t
  /\ pc' = "for"
  /\ UNCHANGED <<err, i, label, num_label, ret, loadVars, trainVars>>

\* for v in label: num_label.append(dict_label_to_num[v])
AppendLabel ==
  /\ pc = "for" /\ i < Len(label)
  /\ \E n \in {Subscript(dict_label_to_num, label[i + 1])} :
       IF n.ok
       THEN /\ num_label' = Append(num_label, n.val)
            /\ i' = i + 1
            /\ UNCHANGED <<pc, err>>
       ELSE /\ err' = "KeyError" /\ pc' = "raised"
            /\ UNCHANGED <<num_label, i>>
  /\ UNCHANGED <<label, dict_label_to_num, ret, loadVars, trainVars>>

\* return num_label
ReturnLabels ==
  /\ pc = "for" /\ i = Len(label)
  /\ ret' = {num_label}
  /\ pc' = "returned"
  /\ UNCHANGED <<err, i, label, dict_label_to_num, num_label, loadVars, trainVars>>

NextLabel == LoadTable \/ AppendLabel \/ ReturnLabels

SpecLabel == InitLabel /\ [][NextLabel]_vars

\* ------------------------------------------- train / tokenized_dataset
\* the vocabulary of the pretrained tokenizer (its special tokens stand for it)
BaseVocab ==
  <<<<"[", "C", "L", "S", "]">>, <<"[", "P", "A", "D", "]">>,
    <<"[", "S", "E", "P", "]">>, <<"[", "U", "N", "K", "]">>,
    <<"[", "M", "A", "S", "K", "]">>>>

\* special_tokens_dict['additional_special_tokens']
Markers == <<SUB_OPEN, SUB_CLOSE, OBJ_OPEN, OBJ_CLOSE>>

\* rows decoded by the "check decoded token" loop of tokenized_dataset
DiagRows == 10

\* sizes of a fold's train or validation part
DatasetSizes == {DiagRows - 1, DiagRows + 1}

\* every token appended, known or not
AddTokens_NoCheck(vocab, toks) == vocab \o toks

\* tokenizer.add_special_tokens: each token not yet in the vocabulary is
\* appended to it, a token already there is left alone
RECURSIVE AddTokens(_, _)
AddTokens(vocab, toks) ==
  IF toks = <<>> THEN vocab
  ELSE AddTokens(IF \E k \in 1..Len(vocab) : vocab[k] = Head(toks)
                 THEN vocab ELSE Append(vocab, Head(toks)),
                 Tail(toks))

\* tokenized_dataset starting at its encode, the registration left out
Entry_NoRegistration == "tokenizer"

\* the first statement of tokenized_dataset
Entry == "add_special_tokens"

InitTrain ==
  /\ pc = "fold" /\ err = "none" /\ i = 0
  /\ tokenizer = BaseVocab
  /\ n_splits \in 2..MaxFold
  /\ fold = 0 /\ part = "none" /\ size = 0
  /\ n_add = 0 /\ n_enc = 0 /\ n_reg = 0 /\ late_reg = FALSE
  /\ IdleLoad /\ IdleLabel

\* for fold, (train_idx, val_idx) in enumerate(splitter.split(...), start=1):
\* the next fold calls tokenized_dataset(train_dataset, tokenizer)
NextFold ==
  /\ pc = "fold" /\ fold < n_splits
  /\ fold' = fold + 1
  /\ part' = "train"
  /\ \E n \in DatasetSizes : size' = n
  /\ pc' = Entry
  /\ UNCHANGED <<err, i, tokenizer, n_splits, n_add, n_enc, n_reg, late_reg,
                 loadVars, labelVars>>

\* the loop over the folds is exhausted
EndTrain ==
  /\ pc = "fold" /\ fold = n_splits
  /\ pc' = "done"
  /\ UNCHANGED <<err, i, trainVars, loadVars, labelVars>>

\* tokenizer.add_special_tokens(special_tokens_dict)
AddSpecialTokens ==
  /\ pc = "add_special_tokens"
  /\ \E t \in {AddTokens(tokenizer, Markers)} :
       /\ tokenizer' = t
       /\ n_reg' = IF t # tokenizer THEN n_reg + 1 ELSE n_reg
       /\ late_reg' = (late_reg \/ (t # tokenizer /\ n_enc > 0))
  /\ n_add' = n_add + 1
  /\ pc' = "tokenizer"
  /\ UNCHANGED <<err, i, n_splits, fold, part, size, n_enc, loadVars, labelVars>>

\* tokenized_sentences = tokenizer(list(dataset['sentence']), ...)
BatchEncode ==
  /\ pc = "tokenizer"
  /\ n_enc' = n_enc + 1
  /\ i' = 0
  /\ pc' = "check"
  /\ UNCHANGED <<err, tokenizer, n_splits, fold, part, size, n_add, n_reg, late_reg,
                 loadVars, labelVars>>

\* for i in range(10): tokenizer.encode(list(dataset['sentence'])[i]) ...
CheckDecoded ==
  /\ pc = "check" /\ i < DiagRows
  /\ IF i < size
     THEN /\ n_enc' = n_enc + 1 /\ i' = i + 1
          /\ UNCHANGED <<pc, err>>
     ELSE /\ err' = "IndexError" /\ pc' = "raised"
          /\ UNCHANGED <<n_enc, i>>
  /\ UNCHANGED <<tokenizer, n_splits, fold, part, size, n_add, n_reg, late_reg,
                 loadVars, labelVars>>

\* return tokenized_sentences: to the second call of the fold, or on to the
\* model and the Trainer
ReturnTokenized ==
  /\ pc = "check" /\ i = DiagRows
  /\ IF part = "train"
     THEN /\ part' = "val"
          /\ \E n \in DatasetSizes : size' = n
          /\ pc' = Entry
     ELSE /\ pc' = "trainer"
          /\ UNCHANGED <<part, size>>
  /\ UNCHANGED <<err, i, tokenizer, n_splits, fold, n_add, n_enc, n_reg, late_reg,
                 loadVars, labelVars>>

\* RE_Dataset, the model, trainer.train(), save_pretrained, run.finish()
TrainFold ==
  /\ pc = "trainer"
  /\ pc' = "fold"
  /\ UNCHANGED <<err, i, trainVars, loadVars, labelVars>>

NextTrain ==
  \/ NextFold \/ EndTrain \/ AddSpecialTokens \/ BatchEncode
  \/ CheckDecoded \/ ReturnTokenized \/ TrainFold

SpecTrain == InitTrain /\ [][NextTrain]_vars

\* ------------------------------------------- properties of load_data
\* 0 <= start <= end < len(z)
InBounds(sp, z) == 0 <= sp[1] /\ sp[1] <= sp[2] /\ sp[2] < Len(z)

\* the two inclusive ranges share no character
Disjoint(a, b) == a[2] < b[1] \/ b[2] < a[1]

\* the 0-based offset of the first occurrence of pat in s at or after a, or -1
RECURSIVE Find(_, _, _)
Find(s, pat, a) ==
  IF a + Len(pat) > Len(s) THEN -1
  ELSE IF SliceIs(s, a, Len(pat), pat) THEN a
  ELSE Find(s, pat, a + 1)

\* the text between the first open and the first close after it: {text}, or
\* {} when either marker is missing
Between(s, open, close) ==
  LET a == Find(s, open, 0)
      b == IF a < 0 THEN -1 ELSE Find(s, close, a + Len(open))
  IN  IF b < 0 THEN {} ELSE {PySlice(s, a + Len(open), b)}

\* s.replace(pat, '') : every occurrence of pat deleted, left to right
RECURSIVE Delete(_, _)
Delete(s, pat) ==
  IF Len(s) < Len(pat) THEN s
  ELSE IF SliceIs(s, 0, Len(pat), pat) THEN Delete(PyFrom(s, Len(pat)), pat)
  ELSE <<Head(s)>> \o Delete(Tail(s), pat)

StripMarkers(s) ==
  Delete(Delete(Delete(Delete(s, SUB_OPEN), SUB_CLOSE), OBJ_OPEN), OBJ_CLOSE)

HasMarker(s) ==
  \E m \in {SUB_OPEN, SUB_CLOSE, OBJ_OPEN, OBJ_CLOSE} : Find(s, m, 0) >= 0

\* the row just read was annotated, from spans (the offsets load_data holds
\* in sub_i and obj_i) that are in bounds of its sentence and disjoint
ValidRow ==
  /\ out.done
  /\ InBounds(out.subject_idx, row.sentence)
  /\ InBounds(out.object_idx, row.sentence)
  /\ Disjoint(out.subject_idx, out.object_idx)

\* C1: for every annotated row whose subject and object spans are in bounds
\* and disjoint, in either textual order, the text between [SUB] and [/SUB] of
\* the output sentence is sentence[sub_start : sub_end+1] of the original
\* sentence, the text between [OBJ] and [/OBJ] is sentence[obj_start :
\* obj_end+1], and these are the values of the subject_entity and
\* object_entity columns.
C1_MarkersWrapEntityText ==
  ValidRow =>
    /\ Between(out.sentence, SUB_OPEN, SUB_CLOSE)
         = {PySlice(row.sentence, out.subject_idx[1], out.subject_idx[2] + 1)}
    /\ Between(out.sentence, OBJ_OPEN, OBJ_CLOSE)
         = {PySlice(row.sentence, out.object_idx[1], out.object_idx[2] + 1)}
    /\ {out.subject_entity} = Between(out.sentence, SUB_OPEN, SUB_CLOSE)
    /\ {out.object_entity} = Between(out.sentence, OBJ_OPEN, OBJ_CLOSE)

\* a valid row whose object precedes its subject, with text between the two,
\* annotated with all four markers
C1_Witness ==
  /\ ValidRow
  /\ out.object_idx[2] + 1 < out.subject_idx[1]
  /\ out.subject_entity # <<>> /\ out.object_entity # <<>>
  /\ Len(out.sentence) = Len(row.sentence) + 22

\* C2: for every valid row (spans in bounds and disjoint, no marker text in
\* the original sentence), deleting every [SUB], [/SUB], [OBJ] and [/OBJ]
\* from the marked sentence gives back the original sentence.
C2_StripIsIdentity ==
  (ValidRow /\ ~HasMarker(row.sentence)) =>
    StripMarkers(out.sentence) = row.sentence

\* a valid row, subject first, whose marked sentence holds all four markers
\* and text after the object
C2_Witness ==
  /\ ValidRow /\ ~HasMarker(row.sentence)
  /\ out.subject_idx[1] < out.object_idx[1]
  /\ out.object_idx[2] + 1 < Len(row.sentence)
  /\ \A m \in {SUB_OPEN, SUB_CLOSE, OBJ_OPEN, OBJ_CLOSE} : Find(out.sentence, m, 0) >= 0
  /\ out.sentence # row.sentence

\* s with marker m inserted before offset a
InsertAt(s, a, m) == PySlice(s, 0, a) \o m \o PyFrom(s, a)

\* the four insertion points of a row, as (original position, marker, opening)
InsertionPoints(sub_i, obj_i) ==
  {[pos |-> sub_i[1], text |-> SUB_OPEN, opening |-> TRUE],
   [pos |-> sub_i[2] + 1, text |-> SUB_CLOSE, opening |-> FALSE],
   [pos |-> obj_i[1], text |-> OBJ_OPEN, opening |-> TRUE],
   [pos |-> obj_i[2] + 1, text |-> OBJ_CLOSE, opening |-> FALSE]}

\* the insertion point applied next: the rightmost one; where a closing and an
\* opening marker meet at one position (adjacent spans) the opening marker is
\* applied first, so that the closing marker lands to its left and the two
\* regions do not nest
Rightmost(pts) ==
  CHOOSE q \in pts :
    \A o \in pts : o.pos < q.pos \/ (o.pos = q.pos /\ (q.opening \/ ~o.opening))

\* the insertion points applied right to left at their original positions
RECURSIVE ApplyRightToLeft(_, _)
ApplyRightToLeft(s, pts) ==
  IF pts = {} THEN s
  ELSE LET q == Rightmost(pts)
       IN  ApplyRightToLeft(InsertAt(s, q.pos, q.text), pts \ {q})

KimMarked ==
  SUB_OPEN \o <<"K", "i", "m">> \o SUB_CLOSE
    \o <<" ", "w", "o", "r", "k", "s", " ", "a", "t", " ">>
    \o OBJ_OPEN \o <<"A", "c", "m", "e">> \o OBJ_CLOSE

\* C3: for every sentence and every pair of in-bounds, disjoint spans the
\* two-step insertion with the +11 correction gives the sentence that
\* inserting the four markers at their original positions right to left
\* gives; 'Kim works at Acme' with subject [0,2] and object [13,16] gives
\* '[SUB]Kim[/SUB] works at [OBJ]Acme[/OBJ]'.
C3_SameAsRightToLeft ==
  ValidRow =>
    /\ out.sentence
         = ApplyRightToLeft(row.sentence,
                            InsertionPoints(out.subject_idx, out.object_idx))
    /\ (/\ row.sentence = KimSentence
        /\ out.subject_idx = <<0, 2>>
        /\ out.object_idx = <<13, 16>>) => out.sentence = KimMarked

\* the worked example has been annotated
C3_Witness ==
  /\ ValidRow
  /\ row.sentence = KimSentence
  /\ out.subject_idx = <<0, 2>> /\ out.object_idx = <<13, 16>>
  /\ out.sentence = KimMarked

\* the spans written in the row's two fields share a character
SpansIntersect == row # NoRow /\ ~Disjoint(row.sub, row.obj)

\* C4: a row whose subject and object ranges intersect (overlap, nest or share
\* a start) fails with an error for that row (OverlappingSpanError in the
\* spec; any exception counts here) and yields no marked sentence.
C4_OverlapIsRejected ==
  SpansIntersect => (err # "none" /\ ~out.done)

\* one of the row's two fields lacks its start_idx or its end_idx key
MissesKey == row # NoRow /\ row.omit # Complete

\* C5: a row one of whose fields lacks the start_idx or the end_idx key fails
\* with an error for that row (MalformedSpanError in the spec; any exception
\* counts here), whether it is the first row or a later one, and yields no
\* annotated record.
C5_MissingKeyIsRejected ==
  MissesKey => (err # "none" /\ ~out.done)

\* the locals of load_data before its first row
FreshLocals ==
  [sub_start |-> Unbound, sub_end |-> Unbound,
   obj_start |-> Unbound, obj_end |-> Unbound, err |-> "none"]

\* C6: the outcome for a row (its record, or its failure) is the outcome the
\* same row has as the first row of a file: nothing parsed for an earlier row
\* is carried into it.
C6_RowsAreIndependent ==
  row # NoRow =>
    /\ out = LoopBody(FreshLocals, row).rec
    /\ err = LoopBody(FreshLocals, row).st.err

\* C10: for every row with both fields complete, the object offsets load_data
\* uses are the integers written after start_idx and end_idx in the row's
\* object_entity, also when those keys sit at or beyond len(subject_entity).
C10_ObjectOffsetsAreTheRowsOwn ==
  (row # NoRow /\ row.omit = Complete /\ out.done) => out.object_idx = row.obj

\* ---------------------------------------- properties of label_to_num
\* some label of the input is no key of the table
SomeLabelAbsent ==
  \E k \in 1..Len(label) : label[k] \notin DOMAIN dict_label_to_num

\* the index the table holds for the k-th label, -1 when it holds none
IndexOf(k) ==
  IF label[k] \in DOMAIN dict_label_to_num THEN dict_label_to_num[label[k]] ELSE -1

\* C7: label_to_num maps every label to its index in the table, in input
\* order, and fails (UnknownLabelError in the spec, the KeyError of the table
\* lookup in the code) without handing back any list, not even a partial one,
\* when some label of the input is absent from the table.
C7_LabelsMappedOrRejected ==
  /\ pc = "returned" =>
       /\ ~SomeLabelAbsent
       /\ ret = {[k \in 1..Len(label) |-> IndexOf(k)]}
  /\ pc = "raised" =>
       /\ SomeLabelAbsent
       /\ err = "KeyError"
       /\ ret = {}
  /\ pc = "for" =>
       /\ ret = {}
       /\ num_label = [k \in 1..i |-> IndexOf(k)]
       /\ \A k \in 1..i : IndexOf(k) >= 0

\* an unknown label met after known ones were already appended
C7_Witness ==
  /\ pc = "raised" /\ err = "KeyError"
  /\ Len(num_label) >= 1 /\ Len(num_label) < Len(label)
  /\ ret = {}

\* ------------------- properties of train / tokenized_dataset
\* the tokenized_dataset calls begun so far
CallsBegun == IF fold = 0 THEN 0 ELSE 2 * (fold - 1) + (IF part = "train" THEN 1 ELSE 2)

====
